---- MODULE Spec2Model ----
(***************************************************************************)
(* Model of cli/hglc/hglc.py: the HGL cooperation-sentence compiler.       *)
(*                                                                         *)
(* Text is modelled at character level: a Python str is a sequence of      *)
(* one-character strings.  Indices follow Python (0-based, -1 for "not     *)
(* found") so that every definition can be read against the source line    *)
(* it models.  A Python dict is a sequence of <<key, value>> pairs in      *)
(* insertion order; a JSON value is a tagged record (Str, List, Dict).     *)
(***************************************************************************)
EXTENDS Integers, Sequences, FiniteSets, TLC

VARIABLES src, pc, parts, out, err, stdout, json, loaded, canonOut, hashOut

vars == <<src, pc, parts, out, err, stdout, json, loaded, canonOut, hashOut>>

(***************************************************************************)
(* Python str primitives                                                   *)
(***************************************************************************)

\* str.isspace() characters that occur in the modelled inputs
WS == {" ", "\t", "\n", "\r", "\f"}

Min(S) == CHOOSE x \in S : \A y \in S : x <= y

\* s[a:b] for 0 <= a, b <= len(s)
Slice(s, a, b) == SubSeq(s, a + 1, b)

\* s.find(t, start): lowest 0-based index >= start where t occurs, else -1
Find(s, t, start) ==
  LET cands == {i \in start..(Len(s) - Len(t)) :
                  s[i + 1] = t[1] /\ SubSeq(s, i + 1, i + Len(t)) = t}
  IN IF cands = {} THEN -1 ELSE Min(cands)

\* t in s
Contains(s, t) == Find(s, t, 0) # -1

RECURSIVE LStrip(_)
LStrip(s) == IF s # <<>> /\ Head(s) \in WS THEN LStrip(Tail(s)) ELSE s

RECURSIVE RStrip(_)
RStrip(s) ==
  IF s # <<>> /\ s[Len(s)] \in WS THEN RStrip(SubSeq(s, 1, Len(s) - 1)) ELSE s

\* s.strip()
Strip(s) == RStrip(LStrip(s))

\* the k-th smallest element of the set of integers S
Nth(S, k) == CHOOSE x \in S : Cardinality({y \in S : y <= x}) = k

\* s.split(): the maximal runs of non-whitespace characters, in order
SplitWs(s) ==
  LET starts == {i \in 1..Len(s) : s[i] \notin WS /\ (i = 1 \/ s[i - 1] \in WS)}
      ends == {i \in 1..Len(s) : s[i] \notin WS /\ (i = Len(s) \/ s[i + 1] \in WS)}
  IN [k \in 1..Cardinality(starts) |-> SubSeq(s, Nth(starts, k), Nth(ends, k))]

\* s.split(sep): every piece between occurrences of the one-character sep
SplitChar(s, sep) ==
  LET cuts == {i \in 1..Len(s) : s[i] = sep} \cup {0, Len(s) + 1}
  IN [k \in 1..(Cardinality(cuts) - 1) |->
        SubSeq(s, Nth(cuts, k) + 1, Nth(cuts, k + 1) - 1)]

\* sep.join(list)
RECURSIVE Join(_, _)
Join(sep, list) ==
  IF list = <<>> THEN <<>>
  ELSE IF Len(list) = 1 THEN list[1]
  ELSE list[1] \o sep \o Join(sep, Tail(list))

\* s.split(sep, 1): <<before, after>> the first sep, or <<s>> when sep is absent
SplitOnce(s, sep) ==
  LET i == Find(s, sep, 0)
  IN IF i = -1 THEN <<s>> ELSE <<Slice(s, 0, i), Slice(s, i + Len(sep), Len(s))>>

\* s.replace(a, b) for one-character a and b
ReplaceChar(s, a, b) == [i \in 1..Len(s) |-> IF s[i] = a THEN b ELSE s[i]]

UPPER == <<"A","B","C","D","E","F","G","H","I","J","K","L","M","N","O","P","Q","R","S","T","U","V","W","X","Y","Z">>

LOWER == <<"a","b","c","d","e","f","g","h","i","j","k","l","m","n","o","p","q","r","s","t","u","v","w","x","y","z">>

\* s.lower()
Lower(s) ==
  [i \in 1..Len(s) |->
     IF \E n \in 1..Len(UPPER) : UPPER[n] = s[i]
     THEN LOWER[CHOOSE n \in 1..Len(UPPER) : UPPER[n] = s[i]]
     ELSE s[i]]

(***************************************************************************)
(* Python values: str, list, dict (insertion ordered)                      *)
(***************************************************************************)

Str(s) == [t |-> "str", s |-> s, items |-> <<>>]

List(elems) == [t |-> "list", s |-> <<>>, items |-> elems]

Dict(items) == [t |-> "dict", s |-> <<>>, items |-> items]

NoRecord == [t |-> "none", s |-> <<>>, items |-> <<>>]

\* k in d
HasKey(d, k) == \E i \in 1..Len(d.items) : d.items[i][1] = k

\* d[k]
Get(d, k) == d.items[CHOOSE i \in 1..Len(d.items) : d.items[i][1] = k][2]

\* d[k] = v: an existing key keeps its position, a new key goes last
DictSet(d, k, v) ==
  IF HasKey(d, k)
  THEN Dict([i \in 1..Len(d.items) |->
               IF d.items[i][1] = k THEN <<k, v>> ELSE d.items[i]])
  ELSE Dict(Append(d.items, <<k, v>>))

(***************************************************************************)
(* parse_line                                                              *)
(***************************************************************************)

ALLOWED_INTENT == {<<"a","p","p","r","o","v","e">>, <<"d","e","n","y">>, <<"r","e","q","u","e","s","t">>}

ALLOWED_ACT == {<<"a","c","c","e","s","s">>, <<"u","p","s","e","r","t">>, <<"e","x","e","c","u","t","e">>}

ALLOWED_KIND == {<<"H","u","m","a","n">>, <<"I","A","D">>, <<"C","L","S">>}

ALLOWED_OBJK == {<<"d","a","t","a","s","e","t">>, <<"m","o","d","e","l">>, <<"l","e","d","g","e","r">>, <<"c","a","p","a","b","i","l","i","t","y">>}

ALLOWED_SCOPE == {<<"r","e","a","d">>, <<"w","r","i","t","e">>, <<"e","x","e","c","u","t","e">>}

order == <<<<"S","U","B","J",":">>, <<"I","N","T","E","N","T",":">>, <<"A","C","T",":">>, <<"O","B","J",":">>, <<"C","O","N","S","E","N","T",":">>, <<"P","O","L","I","C","Y",":">>, <<"P","R","O","O","F",":">>>>

REQUIRED == <<<<"S","U","B","J">>, <<"I","N","T","E","N","T">>, <<"A","C","T">>, <<"O","B","J">>>>

HEXDIGITS == <<"0","1","2","3","4","5","6","7","8","9","a","b","c","d","e","f","A","B","C","D","E","F">>

DigestLen == 64

\* tag[:-1]
TagName(tag) == SubSeq(tag, 1, Len(tag) - 1)

\* line 9: " ".join(line.strip().split())
Normalize(line) == Join(<<" ">>, SplitWs(Strip(line)))

\* NextTag that looks for the tag order[i+1] alone
NextTag_Adjacent(rest, from, k, nxt) ==
  IF k > Len(order) THEN nxt
  ELSE LET j == Find(rest, order[k], from)
       IN IF j # -1 /\ j < nxt THEN j ELSE nxt

\* lines 15-18: the inner loop over order[i+1:], k running from i+1
RECURSIVE NextTag(_, _, _, _)
NextTag(rest, from, k, nxt) ==
  IF k > Len(order) THEN nxt
  ELSE LET j == Find(rest, order[k], from)
       IN NextTag(rest, from, k + 1, IF j # -1 /\ j < nxt THEN j ELSE nxt)

\* lines 13-19: the value recorded for order[i], given that its marker occurs
FieldValue(rest, i) ==
  LET tag == order[i]
      idx == Find(rest, tag, 0)
      nxt == NextTag(rest, idx + Len(tag), i + 1, Len(rest))
  IN Strip(Slice(rest, idx + Len(tag), nxt))

\* ExtractParts without the "continue" of line 14: a tag whose marker does not
\* occur gets an empty value
ExtractParts_NoSkip(rest) ==
  [k \in {TagName(order[i]) : i \in 1..Len(order)} |->
     LET i == CHOOSE n \in 1..Len(order) : TagName(order[n]) = k
     IN IF Find(rest, order[i], 0) = -1 THEN <<>> ELSE FieldValue(rest, i)]

\* lines 12-19: the parts mapping, one entry per tag whose marker occurs
ExtractParts(rest) ==
  LET present == {i \in 1..Len(order) : Find(rest, order[i], 0) # -1}
  IN [k \in {TagName(order[i]) : i \in present} |->
        FieldValue(rest, CHOOSE i \in present : TagName(order[i]) = k)]

NoError == [msg |-> "", arg |-> <<>>]

\* sys.exit(msg + arg)
Exit(msg, arg) == [msg |-> msg, arg |-> arg]

\* lines 20-21: the first required key not in parts, as a one-element
\* sequence, or <<>> when all four are there
MissingRequired(p) ==
  LET miss == {i \in 1..Len(REQUIRED) : REQUIRED[i] \notin DOMAIN p}
  IN IF miss = {} THEN <<>> ELSE <<REQUIRED[Min(miss)]>>

\* lines 22-24
SubjError(p) ==
  LET sp == SplitOnce(p[<<"S","U","B","J">>], <<":">>)
  IN IF Len(sp) # 2 THEN Exit("ParseError: SUBJ must look like Kind:identifier", <<>>)
     ELSE IF sp[1] \notin ALLOWED_KIND THEN Exit("ParseError: invalid subject kind", <<>>)
     ELSE NoError

\* parse_line without the test of line 26
IntentError_Skipped(p) == NoError

\* line 26
IntentError(p) ==
  IF p[<<"I","N","T","E","N","T">>] \notin ALLOWED_INTENT THEN Exit("ParseError: invalid INTENT", <<>>)
  ELSE NoError

\* line 27
ActError(p) ==
  IF p[<<"A","C","T">>] \notin ALLOWED_ACT THEN Exit("ParseError: invalid ACT", <<>>)
  ELSE NoError

\* lines 28-30
ObjError(p) ==
  LET sp == SplitOnce(p[<<"O","B","J">>], <<"/">>)
  IN IF Len(sp) # 2 THEN Exit("ParseError: OBJ must look like kind/id", <<>>)
     ELSE IF sp[1] \notin ALLOWED_OBJK THEN Exit("ParseError: invalid OBJ kind", <<>>)
     ELSE NoError

\* line 34, 39, 42: "K" in parts and parts["K"]
Supplied(p, k) == k \in DOMAIN p /\ p[k] # <<>>

\* lines 34-37
ConsentError(p) ==
  IF ~Supplied(p, <<"C","O","N","S","E","N","T">>) THEN NoError
  ELSE LET sp == SplitOnce(p[<<"C","O","N","S","E","N","T">>], <<"@">>)
       IN IF Len(sp) # 2 THEN Exit("ParseError: CONSENT must look like scope@until", <<>>)
          ELSE IF sp[1] \notin ALLOWED_SCOPE
               THEN Exit("ParseError: invalid CONSENT scope", <<>>)
          ELSE NoError

\* the digest test with the length alone
BadDigest_LengthOnly(v) == Len(v) # DigestLen

\* line 48: the digest test
BadDigest(v) == Len(v) # DigestLen \/ \E i \in 1..Len(v) : \A h \in 1..Len(HEXDIGITS) : HEXDIGITS[h] # v[i]

\* lines 44-52: the loop over the clauses kvs[n..], prov the dict built so far;
\* the result is <<error, prov>>
RECURSIVE ProofLoop(_, _, _)
ProofLoop(kvs, n, prov) ==
  IF n > Len(kvs) THEN <<NoError, prov>>
  ELSE IF ~Contains(kvs[n], <<"=">>) THEN ProofLoop(kvs, n + 1, prov)
  ELSE LET sp == SplitOnce(kvs[n], <<"=">>)
           k == Lower(Strip(sp[1]))
           v == Strip(sp[2])
       IN IF k \in {<<"s","h","a","2","5","6">>, <<"h","a","s","h">>}
          THEN IF BadDigest(v)
               THEN <<Exit("ParseError: PROOF.sha256 must be 64 hex chars", <<>>), prov>>
               ELSE ProofLoop(kvs, n + 1, DictSet(prov, <<"s","h","a","2","5","6">>, Str(v)))
          ELSE IF k \in {<<"s","i","g">>, <<"s","i","g","_","e","d","2","5","5","1","9">>}
               THEN ProofLoop(kvs, n + 1, DictSet(prov, <<"s","i","g","_","e","d","2","5","5","1","9">>, Str(v)))
               ELSE ProofLoop(kvs, n + 1, prov)

\* lines 42-53: <<error, prov>> of the PROOF field
Proof(p) ==
  IF ~Supplied(p, <<"P","R","O","O","F">>) THEN <<NoError, Dict(<<>>)>>
  ELSE ProofLoop(SplitChar(p[<<"P","R","O","O","F">>], ";"), 1, Dict(<<>>))

\* lines 31-33
BaseRecord(p) ==
  LET subj == SplitOnce(p[<<"S","U","B","J">>], <<":">>)
      obj == SplitOnce(p[<<"O","B","J">>], <<"/">>)
  IN Dict(<< <<<<"s","e","n","t","e","n","c","e","_","t","y","p","e">>, Str(<<"C","O","O","P","_","S","E","N","T","E","N","C","E">>)>>,
             <<<<"v">>, Str(<<"0",".","1">>)>>,
             <<<<"s","u","b","j">>, Dict(<< <<<<"k","i","n","d">>, Str(subj[1])>>, <<<<"i","d">>, Str(subj[2])>> >>)>>,
             <<<<"i","n","t","e","n","t">>, Str(p[<<"I","N","T","E","N","T">>])>>,
             <<<<"a","c","t">>, Str(p[<<"A","C","T">>])>>,
             <<<<"o","b","j">>, Dict(<< <<<<"k","i","n","d">>, Str(obj[1])>>, <<<<"i","d">>, Str(obj[2])>> >>)>> >>)

\* line 38
WithConsent(d, p) ==
  IF ~Supplied(p, <<"C","O","N","S","E","N","T">>) THEN d
  ELSE LET sp == SplitOnce(p[<<"C","O","N","S","E","N","T">>], <<"@">>)
       IN DictSet(d, <<"c","o","n","s","e","n","t">>,
                  Dict(<< <<<<"s","c","o","p","e">>, Str(sp[1])>>, <<<<"u","n","t","i","l">>, Str(Strip(sp[2]))>> >>))

\* lines 39-41
WithPolicy(d, p) ==
  IF ~Supplied(p, <<"P","O","L","I","C","Y">>) THEN d
  ELSE LET toks == SplitWs(ReplaceChar(p[<<"P","O","L","I","C","Y">>], ",", " "))
       IN DictSet(d, <<"p","o","l","i","c","y">>,
                  Dict(<< <<<<"h","a","l","t","_","i","f">>, List([i \in 1..Len(toks) |-> Str(toks[i])])>> >>))

\* line 53 without its test: provenance is set even when prov is empty
WithProvenance_Always(d, prov) == DictSet(d, <<"p","r","o","v","e","n","a","n","c","e">>, prov)

\* line 53
WithProvenance(d, prov) ==
  IF prov.items # <<>> THEN DictSet(d, <<"p","r","o","v","e","n","a","n","c","e">>, prov) ELSE d

\* lines 20-53: the first test that exits, in the order the code runs them
FirstError(p) ==
  LET miss == MissingRequired(p)
  IN IF miss # <<>> THEN Exit("ParseError: missing required field ", miss[1])
     ELSE IF SubjError(p) # NoError THEN SubjError(p)
     ELSE IF IntentError(p) # NoError THEN IntentError(p)
     ELSE IF ActError(p) # NoError THEN ActError(p)
     ELSE IF ObjError(p) # NoError THEN ObjError(p)
     ELSE IF ConsentError(p) # NoError THEN ConsentError(p)
     ELSE Proof(p)[1]

\* lines 8-54: [parts, err, out]; out is NoRecord when the call exits
parse_line(line) ==
  LET p == ExtractParts(Normalize(line))
      e == FirstError(p)
  IN [parts |-> p,
      err |-> e,
      out |-> IF e # NoError THEN NoRecord
              ELSE WithProvenance(WithPolicy(WithConsent(BaseRecord(p), p), p), Proof(p)[2])]

(***************************************************************************)
(* json.dumps / json.load, canon_json, sha256                              *)
(***************************************************************************)

\* code points order the characters that occur in dict keys (sorted() on str)
CODEPOINTS == <<"0","1","2","3","4","5","6","7","8","9","A","B","C","D","E","F","G","H","I","J","K","L","M","N","O","P","Q","R","S","T","U","V","W","X","Y","Z","_","a","b","c","d","e","f","g","h","i","j","k","l","m","n","o","p","q","r","s","t","u","v","w","x","y","z">>

Ord(c) == CHOOSE n \in 1..Len(CODEPOINTS) : CODEPOINTS[n] = c

\* a < b on str
RECURSIVE StrLess(_, _)
StrLess(a, b) ==
  IF b = <<>> THEN FALSE
  ELSE IF a = <<>> THEN TRUE
  ELSE IF Head(a) = Head(b) THEN StrLess(Tail(a), Tail(b))
  ELSE Ord(Head(a)) < Ord(Head(b))

\* sorted(items): insertion of each pair into the sorted prefix, by key
RECURSIVE Insert(_, _)
Insert(sorted, kv) ==
  IF sorted = <<>> THEN <<kv>>
  ELSE IF StrLess(kv[1], Head(sorted)[1]) THEN <<kv>> \o sorted
  ELSE <<Head(sorted)>> \o Insert(Tail(sorted), kv)

RECURSIVE Sorted(_)
Sorted(items) ==
  IF items = <<>> THEN <<>>
  ELSE Insert(Sorted(SubSeq(items, 1, Len(items) - 1)), items[Len(items)])

\* EscapeChar with the backslash written as it is
EscapeChar_NoBackslash(c) ==
  IF c = "\"" THEN <<"\\", "\"">>
  ELSE IF c = "\t" THEN <<"\\", "t">>
  ELSE <<c>>

\* json.encoder ESCAPE_DCT, for the characters of the modelled inputs
EscapeChar(c) ==
  IF c = "\"" THEN <<"\\", "\"">>
  ELSE IF c = "\\" THEN <<"\\", "\\">>
  ELSE IF c = "\t" THEN <<"\\", "t">>
  ELSE IF c = "\n" THEN <<"\\", "n">>
  ELSE IF c = "\r" THEN <<"\\", "r">>
  ELSE IF c = "\f" THEN <<"\\", "f">>
  ELSE <<c>>

\* the escapes of the characters of s, in order (by halves)
RECURSIVE Escape(_)
Escape(s) ==
  IF s = <<>> THEN <<>>
  ELSE IF Len(s) = 1 THEN EscapeChar(s[1])
  ELSE LET h == Len(s) \div 2
       IN Escape(SubSeq(s, 1, h)) \o Escape(SubSeq(s, h + 1, Len(s)))

\* encode_basestring_ascii
Quote(s) == <<"\"">> \o Escape(s) \o <<"\"">>

\* json.dumps(v, sort_keys=sort, separators=(itemsep, keysep))
RECURSIVE Dumps(_, _, _, _)
RECURSIVE DumpItems(_, _, _, _, _)
DumpItems(items, isDict, sort, itemsep, keysep) ==
  IF items = <<>> THEN <<>>
  ELSE (IF isDict
        THEN Quote(items[1][1]) \o keysep \o Dumps(items[1][2], sort, itemsep, keysep)
        ELSE Dumps(items[1], sort, itemsep, keysep))
       \o (IF Len(items) = 1 THEN <<>>
           ELSE itemsep \o DumpItems(Tail(items), isDict, sort, itemsep, keysep))

Dumps(v, sort, itemsep, keysep) ==
  IF v.t = "str" THEN Quote(v.s)
  ELSE IF v.t = "list"
       THEN <<"[">> \o DumpItems(v.items, FALSE, sort, itemsep, keysep) \o <<"]">>
  ELSE <<"{">>
       \o DumpItems(IF sort THEN Sorted(v.items) ELSE v.items, TRUE, sort, itemsep, keysep)
       \o <<"}">>

\* canon_json without sort_keys
canon_json_Unsorted(d) == Dumps(d, FALSE, <<",">>, <<":">>)

\* line 55
canon_json(d) == Dumps(d, TRUE, <<",">>, <<":">>)

\* json.decoder WHITESPACE
JSON_WS == {" ", "\t", "\n", "\r"}

\* WHITESPACE.match(s, i).end()
RECURSIVE SkipWs(_, _)
SkipWs(s, i) == IF i < Len(s) /\ s[i + 1] \in JSON_WS THEN SkipWs(s, i + 1) ELSE i

\* json.decoder BACKSLASH: the quote, the backslash and the slash stand for
\* themselves
Unescape(c) ==
  IF c = "t" THEN "\t" ELSE IF c = "n" THEN "\n" ELSE IF c = "r" THEN "\r"
  ELSE IF c = "f" THEN "\f" ELSE c

\* py_scanstring: i is the index after the opening quote; <<chars, end>>.
\* Each round takes the chunk up to the next quote or backslash (STRINGCHUNK)
RECURSIVE ScanString(_, _, _)
ScanString(s, i, acc) ==
  LET Stop(n) == s[n + 1] = "\"" \/ s[n + 1] = "\\"
      j == CHOOSE n \in i..(Len(s) - 1) : Stop(n) /\ \A m \in i..(n - 1) : ~Stop(m)
      chunk == acc \o Slice(s, i, j)
  IN IF s[j + 1] = "\"" THEN <<chunk, j + 1>>
     ELSE ScanString(s, j + 2, Append(chunk, Unescape(s[j + 2])))

\* json.scanner scan_once, JSONObject and JSONArray for str, array and object
\* values (a Sentence holds no number, boolean or null); each is <<value, end>>
RECURSIVE ScanOnce(_, _)
RECURSIVE JSONObject(_, _, _)
RECURSIVE JSONArray(_, _, _)
ScanOnce(s, i) ==
  IF s[i + 1] = "\"" THEN LET r == ScanString(s, i + 1, <<>>) IN <<Str(r[1]), r[2]>>
  ELSE IF s[i + 1] = "{" THEN JSONObject(s, SkipWs(s, i + 1), Dict(<<>>))
  ELSE JSONArray(s, SkipWs(s, i + 1), <<>>)

JSONObject(s, i, d) ==
  IF s[i + 1] = "}" THEN <<d, i + 1>>
  ELSE LET k == ScanString(s, i + 1, <<>>)
           colon == SkipWs(s, k[2])
           v == ScanOnce(s, SkipWs(s, colon + 1))
           d2 == DictSet(d, k[1], v[1])
           e == SkipWs(s, v[2])
       IN IF s[e + 1] = "," THEN JSONObject(s, SkipWs(s, e + 1), d2)
          ELSE <<d2, e + 1>>

JSONArray(s, i, elems) ==
  IF s[i + 1] = "]" THEN <<List(elems), i + 1>>
  ELSE LET v == ScanOnce(s, i)
           e == SkipWs(s, v[2])
       IN IF s[e + 1] = "," THEN JSONArray(s, SkipWs(s, e + 1), Append(elems, v[1]))
          ELSE <<List(Append(elems, v[1])), e + 1>>

\* json.load(open(file))
json_load(text) == ScanOnce(text, SkipWs(text, 0))[1]

\* hashlib.sha256(b).hexdigest(): the digest is an uninterpreted, collision-free
\* function of the bytes, written as the term sha256(b)
sha256_hexdigest(b) == <<"sha256", b>>

(***************************************************************************)
(* Input lines.  A line is written from one value per tag (0: the tag is   *)
(* not written), an arrangement of the tags and a whitespace style.  The   *)
(* lines explored are those that differ from a well-formed line (all seven  *)
(* tags, or the four required ones) in at most MaxDeviations of these      *)
(* nine choices (MaxRecordDeviations of the seven values for the lines     *)
(* whose records go on to canon and hash).                                 *)
(***************************************************************************)

MaxDeviations == 2

MaxRecordDeviations == 1

MaxRotate == 2

Digest64 == LET q == <<"0","a","1","B","2","c","3","D","4","e","5","F","6","7","8","9">> IN q \o q \o q \o q

Digest63 == SubSeq(Digest64, 1, Len(Digest64) - 1)

DigestNotHex == [Digest64 EXCEPT ![10] = "g"]

\* the values written after each marker; the first of each is well formed
Values ==
  << \* SUBJ
     << <<"H","u","m","a","n",":","a","l","i","c","e">>, <<"H","u","m","a","n",":">>, <<"R","o","b","o","t",":","x">>, <<"H","u","m","a","n">>, <<"I","A","D",":","a","\"","b","\\","/","c">> >>,
     \* INTENT
     << <<"a","p","p","r","o","v","e">>, <<"m","a","y","b","e">>, <<"a","p","p","r","o","v","e"," ","I","N","T","E","N","T",":","d","e","n","y">> >>,
     \* ACT
     << <<"a","c","c","e","s","s">>, <<"r","u","n">> >>,
     \* OBJ
     << <<"d","a","t","a","s","e","t","/","d","1">>, <<"d","a","t","a","s","e","t","/">>, <<"f","i","l","e","/","x">>, <<"d","a","t","a","s","e","t">>, <<"l","e","d","g","e","r","/","P","O","L","I","C","Y",":","p">> >>,
     \* CONSENT
     << <<"r","e","a","d","@","2","0","2","6","-","0","1","-","0","1">>, <<>>, <<"a","d","m","i","n","@","x">>, <<"r","e","a","d">> >>,
     \* POLICY
     << <<"r","i","s","k",","," ","p","i","i",",","r","i","s","k">>, <<>>, <<",">> >>,
     \* PROOF
     << <<"s","i","g","=","a","b">>,
        <<"s","h","a","2","5","6","=">> \o Digest64,
        <<"s","h","a","2","5","6","=">> \o Digest63,
        <<"H","A","S","H"," ","="," ">> \o Digest64 \o <<" ",";"," ","s","i","g","=","a","b">>,
        <<"n","o","t","e","=","x">>,
        <<>>,
        <<"s","i","g","=","s","1",";","s","h","a","2","5","6","=">> \o DigestNotHex >> >>

Tags == 1..Len(order)

\* the tag orders a line is written in
Arrangements ==
  << <<1, 2, 3, 4, 5, 6, 7>>, <<4, 1, 2, 3, 5, 6, 7>>, <<7, 1, 2, 3, 4, 5, 6>>,
     <<7, 6, 5, 4, 3, 2, 1>> >>

\* whitespace written before, between and after the fields
Paddings == << << <<>>, <<" ">>, <<>> >>, << <<"\t", " ">>, <<" ", "\t", " ">>, <<" ", "\n">> >> >>

ARR == Len(order) + 1

PAD == Len(order) + 2

Dims == 1..PAD

\* the well-formed lines: every tag written, or only the required ones
Bases ==
  { [d \in Dims |-> 1],
    [d \in Dims |-> IF d \in {5, 6, 7} THEN 0 ELSE 1] }

Options(d) ==
  IF d = ARR THEN 1..Len(Arrangements)
  ELSE IF d = PAD THEN 1..Len(Paddings)
  ELSE 0..Len(Values[d])

\* the largest number of options of a dimension
MaxOption ==
  CHOOSE m \in UNION {Options(d) : d \in Dims} : \A d \in Dims : \A o \in Options(d) : o <= m

\* the choices that differ from a base in the dimensions D
Deviating(base, D) ==
  { [d \in Dims |-> IF d \in D THEN g[d] ELSE base[d]] :
      g \in { h \in [D -> 0..MaxOption] :
                \A d \in D : h[d] \in Options(d) /\ h[d] # base[d] } }

\* the choices within n deviations, in the dimensions Ds, of a base
Choices(Ds, n) ==
  UNION { Deviating(base, D) :
            base \in Bases, D \in { E \in SUBSET Ds : Cardinality(E) <= n } }

RECURSIVE Fields(_, _)
Fields(c, n) ==
  IF n > Len(order) THEN <<>>
  ELSE LET tag == Arrangements[c[ARR]][n]
       IN (IF c[tag] = 0 THEN <<>> ELSE <<order[tag] \o Values[tag][c[tag]]>>)
          \o Fields(c, n + 1)

\* the text of the line written from the choice c
Render(c) ==
  LET pad == Paddings[c[PAD]]
  IN pad[1] \o Join(pad[2], Fields(c, 1)) \o pad[3]

\* the lines given to the parser
LineChoices == Choices(Dims, MaxDeviations)

\* the lines whose records are saved, reordered, canonicalized and hashed
RecordChoices == Choices(Tags, MaxRecordDeviations)

(***************************************************************************)
(* Records equal to a given one, built in another key-insertion order      *)
(***************************************************************************)

Rotate(items, r) ==
  IF items = <<>> THEN items
  ELSE [i \in 1..Len(items) |-> items[((i - 1 + r) % Len(items)) + 1]]

\* v with the keys of every dict, at every nesting level, rotated by r places
RECURSIVE Reorder(_, _)
Reorder(v, r) ==
  IF v.t # "dict" THEN v
  ELSE Dict(Rotate([i \in 1..Len(v.items) |->
                      <<v.items[i][1], Reorder(v.items[i][2], r)>>], r))

\* structural equality of Python values: dicts compare as mappings
RECURSIVE StructEq(_, _)
StructEq(a, b) ==
  /\ a.t = b.t
  /\ IF a.t = "dict"
     THEN /\ Len(a.items) = Len(b.items)
          /\ \A i \in 1..Len(a.items) :
               /\ HasKey(b, a.items[i][1])
               /\ StructEq(a.items[i][2], Get(b, a.items[i][1]))
     ELSE IF a.t = "list"
     THEN /\ Len(a.items) = Len(b.items)
          /\ \A i \in 1..Len(a.items) : StructEq(a.items[i], b.items[i])
     ELSE a.s = b.s

(***************************************************************************)
(* The command line: main()                                                *)
(***************************************************************************)

Files == {"a", "b"}

NoText == <<>>

NoDigest == <<"none", <<>>>>

\* print(text): the text and a newline
print_line(text) == text \o <<"\n">>

Start ==
  /\ pc = "start"
  /\ parts = <<>>
  /\ out = NoRecord
  /\ err = NoError
  /\ stdout = NoText
  /\ json = [f \in Files |-> NoText]
  /\ loaded = [f \in Files |-> NoRecord]
  /\ canonOut = [f \in Files |-> NoText]
  /\ hashOut = [f \in Files |-> NoDigest]

Init == \E c \in RecordChoices : src = Render(c) /\ Start

ParseInit == \E c \in LineChoices : src = Render(c) /\ Start

\* lines 61-62: hglc compile src
Compile ==
  /\ pc = "start"
  /\ LET r == parse_line(src)
     IN /\ parts' = r.parts
        /\ out' = r.out
        /\ err' = r.err
        /\ stdout' = IF r.err = NoError THEN print_line(canon_json(r.out)) ELSE NoText
        /\ pc' = IF r.err = NoError THEN "compiled" ELSE "exited"
  /\ UNCHANGED <<src, json, loaded, canonOut, hashOut>>

\* the caller keeps the compiled output as file a, and file b holds an equal
\* record written by json.dumps from another key-insertion order
Save ==
  /\ pc = "compiled"
  /\ \E r \in 0..MaxRotate :
       json' = [f \in Files |->
                  IF f = "a" THEN stdout
                  ELSE Dumps(Reorder(out, r), FALSE, <<",", " ">>, <<":", " ">>)]
  /\ pc' = "saved"
  /\ UNCHANGED <<src, parts, out, err, stdout, loaded, canonOut, hashOut>>

\* lines 63-64: hglc canon f
Canon(f) ==
  /\ pc = "saved"
  /\ canonOut[f] = NoText
  /\ LET d == json_load(json[f])
     IN /\ loaded' = [loaded EXCEPT ![f] = d]
        /\ canonOut' = [canonOut EXCEPT ![f] = print_line(canon_json(d))]
  /\ UNCHANGED <<src, pc, parts, out, err, stdout, json, hashOut>>

\* lines 65-66: hglc hash f
Hash(f) ==
  /\ pc = "saved"
  /\ hashOut[f] = NoDigest
  /\ LET d == json_load(json[f])
     IN /\ loaded' = [loaded EXCEPT ![f] = d]
        /\ hashOut' = [hashOut EXCEPT ![f] = sha256_hexdigest(canon_json(d))]
  /\ UNCHANGED <<src, pc, parts, out, err, stdout, json, canonOut>>

Next ==
  \/ Compile
  \/ Save
  \/ \E f \in Files : Canon(f)
  \/ \E f \in Files : Hash(f)

\* the command-line session: compile, keep the output, canon and hash
Spec == Init /\ [][Next]_vars

ParseNext == Compile

\* parse_line as a function of the line: every line of Lines compiled once
ParseSpec == ParseInit /\ [][ParseNext]_vars

(***************************************************************************)
(* Properties.  The text predicates below are stated on the line itself,   *)
(* apart from the operators of parse_line.                                 *)
(***************************************************************************)

\* t occurs in s at the 0-based index j
OccursAt(s, t, j) ==
  /\ j >= 0
  /\ j + Len(t) <= Len(s)
  /\ \A n \in 1..Len(t) : s[j + n] = t[n]

\* t occurs in s
Occurs(s, t) == \E j \in 0..(Len(s) - Len(t)) : OccursAt(s, t, j)

\* the index of the first occurrence of t in s, given that it occurs
FirstAt(s, t) ==
  CHOOSE j \in 0..(Len(s) - Len(t)) :
    OccursAt(s, t, j) /\ \A m \in 0..(j - 1) : ~OccursAt(s, t, m)

HasChar(s, ch) == \E i \in 1..Len(s) : s[i] = ch

\* the text before the first ch of s (all of s when it has none)
Before(s, ch) ==
  IF HasChar(s, ch)
  THEN SubSeq(s, 1, (CHOOSE i \in 1..Len(s) : s[i] = ch /\ \A m \in 1..(i - 1) : s[m] # ch) - 1)
  ELSE s

\* the text after the first ch of s, given that it has one
After(s, ch) ==
  SubSeq(s, (CHOOSE i \in 1..Len(s) : s[i] = ch /\ \A m \in 1..(i - 1) : s[m] # ch) + 1, Len(s))

Parsed == pc # "start"

Accepted == pc # "start" /\ err = NoError

Rejected == pc = "exited"

\* no record comes back and nothing is printed
NoOutput == out = NoRecord /\ stdout = NoText

\* out[k] as text
Field(k) == Get(out, k).s

\* out[k][k2] as text
SubField(k, k2) == Get(Get(out, k), k2).s

MissingMarkers == {i \in 1..Len(REQUIRED) : ~Occurs(src, order[i])}

\* C3: a line in which a required marker (SUBJ:, INTENT:, ACT:, OBJ:) does not
\* occur is rejected with the missing-field error naming one field whose marker
\* is absent from the line, and no record comes back
C3_MissingFieldRejected ==
  (Parsed /\ MissingMarkers # {}) =>
    /\ Rejected
    /\ NoOutput
    /\ err.msg = "ParseError: missing required field "
    /\ \E i \in MissingMarkers : err.arg = REQUIRED[i]

\* a line with SUBJ, INTENT and ACT but no OBJ marker, rejected naming OBJ
C3_Witness ==
  /\ Rejected
  /\ MissingMarkers = {4}
  /\ err.arg = <<"O","B","J">>

\* C4: in every record returned the subject id and the object id are non-empty
C4_IdsNonEmpty ==
  Accepted => (SubField(<<"s","u","b","j">>, <<"i","d">>) # <<>> /\ SubField(<<"o","b","j">>, <<"i","d">>) # <<>>)

EnumsHold ==
  /\ SubField(<<"s","u","b","j">>, <<"k","i","n","d">>) \in ALLOWED_KIND
  /\ Field(<<"i","n","t","e","n","t">>) \in ALLOWED_INTENT
  /\ Field(<<"a","c","t">>) \in ALLOWED_ACT
  /\ SubField(<<"o","b","j">>, <<"k","i","n","d">>) \in ALLOWED_OBJK
  /\ HasKey(out, <<"c","o","n","s","e","n","t">>) => SubField(<<"c","o","n","s","e","n","t">>, <<"s","c","o","p","e">>) \in ALLOWED_SCOPE

\* some field of the line has a value outside its enumeration
OutsideEnum ==
  \/ <<"S","U","B","J">> \in DOMAIN parts /\ Before(parts[<<"S","U","B","J">>], ":") \notin ALLOWED_KIND
  \/ <<"I","N","T","E","N","T">> \in DOMAIN parts /\ parts[<<"I","N","T","E","N","T">>] \notin ALLOWED_INTENT
  \/ <<"A","C","T">> \in DOMAIN parts /\ parts[<<"A","C","T">>] \notin ALLOWED_ACT
  \/ <<"O","B","J">> \in DOMAIN parts /\ Before(parts[<<"O","B","J">>], "/") \notin ALLOWED_OBJK
  \/ /\ <<"C","O","N","S","E","N","T">> \in DOMAIN parts
     /\ parts[<<"C","O","N","S","E","N","T">>] # <<>>
     /\ Before(parts[<<"C","O","N","S","E","N","T">>], "@") \notin ALLOWED_SCOPE

\* C5: every record returned has its subject kind, intent, act, object kind and
\* consent scope inside their enumerations, and a line with a value outside its
\* enumeration is rejected with no record
C5_Enumerations ==
  /\ Accepted => EnumsHold
  /\ (Parsed /\ OutsideEnum) => (Rejected /\ NoOutput)

\* INTENT:maybe, everything before it well formed: rejected for the intent
C5_Witness ==
  /\ Rejected
  /\ MissingMarkers = {}
  /\ parts[<<"I","N","T","E","N","T">>] = <<"m","a","y","b","e">>
  /\ err.msg = "ParseError: invalid INTENT"

IsHexDigest(v) ==
  /\ Len(v) = DigestLen
  /\ \A i \in 1..Len(v) : \E h \in 1..Len(HEXDIGITS) : HEXDIGITS[h] = v[i]

\* the key=value clauses of the PROOF value
ProofClauses ==
  IF <<"P","R","O","O","F">> \in DOMAIN parts
  THEN LET kvs == SplitChar(parts[<<"P","R","O","O","F">>], ";")
       IN {kvs[i] : i \in {n \in 1..Len(kvs) : HasChar(kvs[n], "=")}}
  ELSE {}

ClauseKey(kv) == Lower(Strip(Before(kv, "=")))

ClauseValue(kv) == Strip(After(kv, "="))

DigestClauses == {kv \in ProofClauses : ClauseKey(kv) \in {<<"s","h","a","2","5","6">>, <<"h","a","s","h">>}}

\* C6: a provenance.sha256 of a returned record is 64 hex characters and is the
\* trimmed value of a digest clause of the line, letter case unchanged; a line
\* with a digest clause (sha256 or hash, any case) whose value is not 64 hex
\* characters is rejected with no record
C6_DigestRule ==
  /\ (Accepted /\ HasKey(out, <<"p","r","o","v","e","n","a","n","c","e">>) /\ HasKey(Get(out, <<"p","r","o","v","e","n","a","n","c","e">>), <<"s","h","a","2","5","6">>)) =>
       /\ IsHexDigest(SubField(<<"p","r","o","v","e","n","a","n","c","e">>, <<"s","h","a","2","5","6">>))
       /\ \E kv \in DigestClauses : ClauseValue(kv) = SubField(<<"p","r","o","v","e","n","a","n","c","e">>, <<"s","h","a","2","5","6">>)
  /\ (Parsed /\ \E kv \in DigestClauses : ~IsHexDigest(ClauseValue(kv))) =>
       (Rejected /\ NoOutput)

\* a digest with upper-case letters, written under the key HASH, kept as written
C6_Witness ==
  /\ Accepted
  /\ Occurs(src, <<"H","A","S","H"," ","="," ">>)
  /\ HasKey(out, <<"p","r","o","v","e","n","a","n","c","e">>)
  /\ HasKey(Get(out, <<"p","r","o","v","e","n","a","n","c","e">>), <<"s","h","a","2","5","6">>)
  /\ SubField(<<"p","r","o","v","e","n","a","n","c","e">>, <<"s","h","a","2","5","6">>) = Digest64
  /\ HasChar(SubField(<<"p","r","o","v","e","n","a","n","c","e">>, <<"s","h","a","2","5","6">>), "B")

OptionalKeys == << <<<<"c","o","n","s","e","n","t">>, <<"C","O","N","S","E","N","T">>>>, <<<<"p","o","l","i","c","y">>, <<"P","O","L","I","C","Y">>>>, <<<<"p","r","o","v","e","n","a","n","c","e">>, <<"P","R","O","O","F">>>> >>

RequiredKeys == {<<"s","e","n","t","e","n","c","e","_","t","y","p","e">>, <<"v">>, <<"s","u","b","j">>, <<"i","n","t","e","n","t">>, <<"a","c","t">>, <<"o","b","j">>}

\* C7: a returned record holds sentence_type, v, subj, intent, act and obj, and
\* holds consent, policy or provenance only if the marker occurs in the line
\* with a non-empty trimmed value; a PROOF value with no recognized key is no
\* error and gives a record without provenance
C7_OptionalFields ==
  /\ Accepted =>
       /\ \A k \in RequiredKeys : HasKey(out, k)
       /\ \A i \in 1..Len(out.items) :
            \/ out.items[i][1] \in RequiredKeys
            \/ \E n \in 1..Len(OptionalKeys) :
                 /\ out.items[i][1] = OptionalKeys[n][1]
                 /\ Occurs(src, OptionalKeys[n][2] \o <<":">>)
                 /\ OptionalKeys[n][2] \in DOMAIN parts
                 /\ parts[OptionalKeys[n][2]] # <<>>
  /\ (Parsed /\ <<"P","R","O","O","F">> \in DOMAIN parts
        /\ \A kv \in ProofClauses :
             ClauseKey(kv) \notin {<<"s","h","a","2","5","6">>, <<"h","a","s","h">>, <<"s","i","g">>, <<"s","i","g","_","e","d","2","5","5","1","9">>}) =>
       /\ err.msg # "ParseError: PROOF.sha256 must be 64 hex chars"
       /\ Accepted => ~HasKey(out, <<"p","r","o","v","e","n","a","n","c","e">>)

\* PROOF:note=x, an unrecognized key: accepted, and no provenance in the record
C7_Witness ==
  /\ Accepted
  /\ <<"P","R","O","O","F">> \in DOMAIN parts
  /\ parts[<<"P","R","O","O","F">>] = <<"n","o","t","e","=","x">>
  /\ ~HasKey(out, <<"p","r","o","v","e","n","a","n","c","e">>)

\* the rules of the validator, as the specification states them, on the
\* extracted values; rules 2 to 8 are read on a line that has the field
RuleViolated(n) ==
  IF n = 1 THEN \E i \in 1..Len(REQUIRED) : REQUIRED[i] \notin DOMAIN parts
  ELSE IF n = 2
  THEN /\ <<"S","U","B","J">> \in DOMAIN parts
       /\ \/ ~HasChar(parts[<<"S","U","B","J">>], ":")
          \/ Before(parts[<<"S","U","B","J">>], ":") \notin ALLOWED_KIND
          \/ After(parts[<<"S","U","B","J">>], ":") = <<>>
  ELSE IF n = 3 THEN <<"I","N","T","E","N","T">> \in DOMAIN parts /\ parts[<<"I","N","T","E","N","T">>] \notin ALLOWED_INTENT
  ELSE IF n = 4 THEN <<"A","C","T">> \in DOMAIN parts /\ parts[<<"A","C","T">>] \notin ALLOWED_ACT
  ELSE IF n = 5
  THEN /\ <<"O","B","J">> \in DOMAIN parts
       /\ \/ ~HasChar(parts[<<"O","B","J">>], "/")
          \/ Before(parts[<<"O","B","J">>], "/") \notin ALLOWED_OBJK
          \/ After(parts[<<"O","B","J">>], "/") = <<>>
  ELSE IF n = 6
  THEN /\ <<"C","O","N","S","E","N","T">> \in DOMAIN parts
       /\ parts[<<"C","O","N","S","E","N","T">>] # <<>>
       /\ \/ ~HasChar(parts[<<"C","O","N","S","E","N","T">>], "@")
          \/ Before(parts[<<"C","O","N","S","E","N","T">>], "@") \notin ALLOWED_SCOPE
  ELSE IF n = 7 THEN FALSE
  ELSE \E kv \in DigestClauses : ~IsHexDigest(ClauseValue(kv))

\* the same rules with the subject and object rules as the code tests them: the
\* identifier after the colon or the slash may be empty
RuleTested(n) ==
  IF n = 2
  THEN /\ <<"S","U","B","J">> \in DOMAIN parts
       /\ (~HasChar(parts[<<"S","U","B","J">>], ":") \/ Before(parts[<<"S","U","B","J">>], ":") \notin ALLOWED_KIND)
  ELSE IF n = 5
  THEN /\ <<"O","B","J">> \in DOMAIN parts
       /\ (~HasChar(parts[<<"O","B","J">>], "/") \/ Before(parts[<<"O","B","J">>], "/") \notin ALLOWED_OBJK)
  ELSE RuleViolated(n)

Rules == 1..8

\* the rule an exit message reports
RuleOf(msg) ==
  IF msg = "ParseError: missing required field " THEN 1
  ELSE IF msg \in {"ParseError: SUBJ must look like Kind:identifier",
                   "ParseError: invalid subject kind"} THEN 2
  ELSE IF msg = "ParseError: invalid INTENT" THEN 3
  ELSE IF msg = "ParseError: invalid ACT" THEN 4
  ELSE IF msg \in {"ParseError: OBJ must look like kind/id",
                   "ParseError: invalid OBJ kind"} THEN 5
  ELSE IF msg \in {"ParseError: CONSENT must look like scope@until",
                   "ParseError: invalid CONSENT scope"} THEN 6
  ELSE IF msg = "ParseError: PROOF.sha256 must be 64 hex chars" THEN 8
  ELSE 0

\* C8: a line that violates more than one rule is rejected, with no record, for
\* the earliest violated rule in the order required presence, subject, intent,
\* act, object, consent, policy, provenance
C8_FailFastOrder ==
  (Parsed /\ Cardinality({n \in Rules : RuleViolated(n)}) > 1) =>
    /\ Rejected
    /\ NoOutput
    /\ RuleOf(err.msg) = Min({n \in Rules : RuleViolated(n)})

\* the order of the tests the code makes: with the subject and object rules as
\* the code tests them, the exit reports the earliest rule that fails
FailFastOrderOfTests ==
  (Parsed /\ {n \in Rules : RuleTested(n)} # {}) =>
    /\ Rejected
    /\ NoOutput
    /\ RuleOf(err.msg) = Min({n \in Rules : RuleTested(n)})

\* the markers that occur in the line have their first occurrences in the
\* fixed order
MarkersInOrder ==
  \A a, b \in Tags :
    (a < b /\ Occurs(src, order[a]) /\ Occurs(src, order[b])) =>
      FirstAt(src, order[a]) < FirstAt(src, order[b])

\* C9: a line is accepted only if the markers that occur in it appear in the
\* fixed order SUBJ: INTENT: ACT: OBJ: CONSENT: POLICY: PROOF:
C9_OrderEnforced == Accepted => MarkersInOrder

\* the index at which the value of order[i] ends in the normalized line s: the
\* start of the nearest marker of a later tag after the marker of order[i],
\* or the end of the line
ValueEnd(s, i) ==
  LET from == FirstAt(s, order[i]) + Len(order[i])
      stops == {j \in from..Len(s) : \E k \in (i + 1)..Len(order) : OccursAt(s, order[k], j)}
  IN IF stops = {} THEN Len(s)
     ELSE CHOOSE j \in stops : \A m \in stops : j <= m

\* C10: for each tag whose marker occurs in the normalized line, the value
\* recorded is the trimmed text from just after the first occurrence of its
\* marker to the nearest marker of a later tag after it (absent tags skipped),
\* or to the end of the line; a tag whose marker does not occur has no entry
C10_FieldExtraction ==
  Parsed =>
    LET s == Normalize(src)
    IN \A i \in Tags :
         IF Occurs(s, order[i])
         THEN /\ TagName(order[i]) \in DOMAIN parts
              /\ parts[TagName(order[i])] =
                   Strip(SubSeq(s, FirstAt(s, order[i]) + Len(order[i]) + 1, ValueEnd(s, i)))
         ELSE TagName(order[i]) \notin DOMAIN parts

\* CONSENT and POLICY absent, PROOF present: the OBJ value ends at PROOF:
C10_Witness ==
  /\ Parsed
  /\ DOMAIN parts = {<<"S","U","B","J">>, <<"I","N","T","E","N","T">>, <<"A","C","T">>, <<"O","B","J">>, <<"P","R","O","O","F">>}
  /\ parts[<<"O","B","J">>] = <<"d","a","t","a","s","e","t","/","d","1">>
  /\ parts[<<"P","R","O","O","F">>] # <<>>

\* C1: two structurally equal records held in files a and b, written in
\* different key orders, get the same canon output and the same hash output
C1_OrderIndependence ==
  StructEq(loaded["a"], loaded["b"]) =>
    /\ (canonOut["a"] # NoText /\ canonOut["b"] # NoText) => canonOut["a"] = canonOut["b"]
    /\ (hashOut["a"] # NoDigest /\ hashOut["b"] # NoDigest) => hashOut["a"] = hashOut["b"]

\* both files canonicalized and hashed, file b holding the keys of the record
\* and of its nested records in another order than file a
C1_Witness ==
  /\ canonOut["a"] # NoText /\ canonOut["b"] # NoText
  /\ hashOut["a"] # NoDigest /\ hashOut["b"] # NoDigest
  /\ loaded["a"] # loaded["b"]
  /\ StructEq(loaded["a"], loaded["b"])
  /\ Get(loaded["a"], <<"s","u","b","j">>) # Get(loaded["b"], <<"s","u","b","j">>)
  /\ HasKey(loaded["a"], <<"p","r","o","v","e","n","a","n","c","e">>)
  /\ hashOut["a"] = hashOut["b"]

\* C2: canon on the output of compile prints that output again
C2_Idempotence ==
  canonOut["a"] # NoText => (json["a"] = stdout /\ canonOut["a"] = stdout)

\* canon run on the compiled output of a record whose subject id holds a quote
\* and a backslash
C2_Witness ==
  /\ canonOut["a"] # NoText
  /\ HasChar(SubField(<<"s","u","b","j">>, <<"i","d">>), "\"")
  /\ HasChar(SubField(<<"s","u","b","j">>, <<"i","d">>), "\\")
  /\ canonOut["a"] = stdout

====
